---- MODULE Spec2Model ----
(***************************************************************************)
(* Model of package amqclient, consumer.go: the Consumer of an AMQP queue. *)
(*                                                                         *)
(* Three tasks run concurrently:                                           *)
(*   - the goroutine started by redialConsumer (the Link Supervisor),      *)
(*   - Consumer.handle (the Delivery Pump),                                *)
(*   - the application, which reads sendChan and may call Shutdown.        *)
(* The broker is the environment: every broker call returns either        *)
(* success or an error, deliveries arrive on an open subscription and a    *)
(* subscription may be closed by the broker at any time.                   *)
(*                                                                         *)
(* Both hand-off channels (clientChanChan and clientChan) are unbuffered,  *)
(* so a send and the matching receive are one joint step.                  *)
(***************************************************************************)
EXTENDS Integers, Sequences, FiniteSets, TLC

\* ---------------------------------------------------------------- bounds
\* Number of connections the broker accepts before every dial fails.
MaxLinks == 2
\* Number of deliveries the broker pushes in all.
MaxDeliveries == 2

\* ------------------------------------------------------------- constants
\* The nil *client.
Nil == 0
\* The autoAck argument of channel.Consume.
ConsumeAutoAck == TRUE

LinkIds == 1..MaxLinks
NoDelivery == <<0, 0>>

VARIABLES
    \* Consumer fields
    client,            \* c.client: Nil or the id of the Link the pump holds
    ccClosed,          \* clientChanChan has been closed
    sendCloses,        \* number of close(c.sendChan) executed
    quitClosed,        \* c.quit has been closed
    ctxDone,           \* c.cancel() has been called
    \* Consumer.handle locals and position
    pcPump,
    deliveries,        \* the Link whose delivery stream handle() reads (Nil: nil channel)
    err,               \* handle()'s err: the last Consume failed
    d,                 \* the delivery taken by the select
    \* redialConsumer goroutine locals and position
    pcSup,
    supC,              \* the goroutine's c: the Link under construction (Nil: no connection)
    supErr,            \* the goroutine's err: its last broker call failed
    clientChanClosed,  \* the goroutine's clientChan has been closed
    \* the broker side of every Link
    links,
    nextLink,          \* number of connections dialed so far
    \* the application
    pcApp,             \* position in Shutdown
    appReading,        \* the application still receives from sendChan
    \* history
    output,            \* deliveries the application has received, in order
    ackOk,             \* deliveries whose Ack returned nil
    ackErr             \* deliveries whose Ack returned an error

vars == <<client, ccClosed, sendCloses, quitClosed, ctxDone, pcPump, deliveries,
          err, d, pcSup, supC, supErr, clientChanClosed, links, nextLink, pcApp,
          appReading, output, ackOk, ackErr>>

pumpVars == <<client, pcPump, deliveries, err, d>>
supVars == <<pcSup, supC, supErr, clientChanClosed, ccClosed>>
appVars == <<pcApp, appReading, quitClosed, ctxDone>>
histVars == <<output, ackOk, ackErr>>

\* A Link that does not exist yet.
NoLink == [stage |-> "none", open |-> FALSE, owner |-> "none", sub |-> "none",
           autoAck |-> FALSE, stream |-> <<>>, sent |-> 0]

Init ==
    /\ client = Nil
    /\ ccClosed = FALSE
    /\ sendCloses = 0
    /\ quitClosed = FALSE
    /\ ctxDone = FALSE
    /\ pcPump = "recvSlot"
    /\ deliveries = Nil
    /\ err = FALSE
    /\ d = NoDelivery
    /\ pcSup = "offerSlot"
    /\ supC = Nil
    /\ supErr = FALSE
    /\ clientChanClosed = FALSE
    /\ links = [l \in LinkIds |-> NoLink]
    /\ nextLink = 0
    /\ pcApp = "run"
    /\ appReading = TRUE
    /\ output = <<>>
    /\ ackOk = {}
    /\ ackErr = {}

\* A panic in handle() ends the whole process: no task takes a step afterwards.
Alive == pcPump # "panic"

sendClosed == sendCloses > 0

\* client.close(): the connection of Link l is closed, its subscription ends.
clientClose(ls, l) ==
    [ls EXCEPT ![l].open = FALSE,
               ![l].stream = <<>>,
               ![l].sub = IF @ = "open" THEN "closed" ELSE @]

\* ------------------------------------------------------------ Shutdown
\* close(c.quit)
ShutdownCloseQuit ==
    /\ Alive
    /\ pcApp = "run"
    /\ quitClosed' = TRUE
    /\ pcApp' = "cancel"
    /\ UNCHANGED <<ctxDone, appReading, pumpVars, supVars, links, nextLink,
                   sendCloses, histVars>>

\* c.cancel()
ShutdownCancel ==
    /\ Alive
    /\ pcApp = "cancel"
    /\ ctxDone' = TRUE
    /\ pcApp' = "down"
    /\ UNCHANGED <<quitClosed, appReading, pumpVars, supVars, links, nextLink,
                   sendCloses, histVars>>

\* The application stops receiving from the output channel.
AppStopReading ==
    /\ Alive
    /\ appReading
    /\ appReading' = FALSE
    /\ UNCHANGED <<pcApp, quitClosed, ctxDone, pumpVars, supVars, links, nextLink,
                   sendCloses, histVars>>

\* ------------------------------------------------------- Consumer.handle
\* Mutant of LoopTop: the loop asks for a new slot whether or not it holds a
\* Link.
LoopTopAlwaysRequests(cl) == "recvSlot"

\* Where the for loop goes next: the top of the loop tests c.client == nil.
LoopTop(cl) == IF cl = Nil THEN "recvSlot" ELSE "select"

\* clientChan, ok := <-c.clientChanChan with ok true, which is the goroutine's
\* case clientChanChan <- clientChan: the goroutine goes on to dial.
RecvSlot ==
    /\ Alive
    /\ pcPump = "recvSlot"
    /\ pcSup = "offerSlot"
    /\ ~ccClosed
    /\ pcPump' = "recvLink"
    /\ pcSup' = "dial"
    /\ supC' = Nil
    /\ supErr' = FALSE
    /\ UNCHANGED <<client, deliveries, err, d, clientChanClosed, ccClosed, links,
                   nextLink, appVars, sendCloses, histVars>>

\* clientChan, ok := <-c.clientChanChan with ok false: log and return.
RecvSlotClosed ==
    /\ Alive
    /\ pcPump = "recvSlot"
    /\ ccClosed
    /\ pcPump' = "done"
    /\ UNCHANGED <<client, deliveries, err, d, supVars, links, nextLink, appVars,
                   sendCloses, histVars>>

\* c.client = <-clientChan, paired with the goroutine's case clientChan <- c:
\* the Link changes hands and the goroutine loops to offer the next slot.
RecvLink ==
    /\ Alive
    /\ pcPump = "recvLink"
    /\ pcSup = "offerLink"
    /\ ~clientChanClosed
    /\ client' = supC
    /\ links' = [links EXCEPT ![supC].owner = "pump"]
    /\ pcPump' = "consume"
    /\ pcSup' = "offerSlot"
    /\ supC' = Nil
    /\ UNCHANGED <<deliveries, err, d, supErr, clientChanClosed, ccClosed, nextLink,
                   appVars, sendCloses, histVars>>

\* c.client = <-clientChan on the closed clientChan: the zero value, nil.
RecvLinkClosed ==
    /\ Alive
    /\ pcPump = "recvLink"
    /\ clientChanClosed
    /\ client' = Nil
    /\ pcPump' = "consume"
    /\ UNCHANGED <<deliveries, err, d, supVars, links, nextLink, appVars,
                   sendCloses, histVars>>

\* Mutant of StartConsume: handle() returns when Consume fails.
StartConsumeReturnsOnError ==
    /\ Alive
    /\ pcPump = "consume"
    /\ IF client = Nil
       THEN /\ pcPump' = "panic"
            /\ UNCHANGED <<client, deliveries, err, links>>
       ELSE \E ok \in BOOLEAN :
              IF ok
              THEN /\ links' = [links EXCEPT ![client].sub = "open",
                                             ![client].autoAck = ConsumeAutoAck]
                   /\ deliveries' = client
                   /\ err' = FALSE
                   /\ pcPump' = "select"
                   /\ UNCHANGED client
              ELSE /\ links' = clientClose([links EXCEPT ![client].sub = "failed"], client)
                   /\ deliveries' = Nil
                   /\ err' = TRUE
                   /\ client' = Nil
                   /\ pcPump' = "done"
    /\ UNCHANGED <<d, supVars, nextLink, appVars, sendCloses, histVars>>

\* c.client.channel.Consume(...) and the test of its error. On a nil client
\* the field access panics. Otherwise the broker call succeeds or fails.
StartConsume ==
    /\ Alive
    /\ pcPump = "consume"
    /\ IF client = Nil
       THEN /\ pcPump' = "panic"
            /\ UNCHANGED <<client, deliveries, err, links>>
       ELSE \E ok \in BOOLEAN :
              IF ok
              THEN /\ links' = [links EXCEPT ![client].sub = "open",
                                             ![client].autoAck = ConsumeAutoAck]
                   /\ deliveries' = client
                   /\ err' = FALSE
                   /\ pcPump' = "select"
                   /\ UNCHANGED client
              ELSE /\ links' = clientClose([links EXCEPT ![client].sub = "failed"], client)
                   /\ deliveries' = Nil
                   /\ err' = TRUE
                   /\ client' = Nil
                   /\ pcPump' = LoopTop(Nil)
    /\ UNCHANGED <<d, supVars, nextLink, appVars, sendCloses, histVars>>

\* Mutant of TakeDelivery: the select takes the newest delivery of the stream.
TakeDeliveryNewestFirst ==
    /\ Alive
    /\ pcPump = "select"
    /\ deliveries # Nil
    /\ links[deliveries].stream # <<>>
    /\ LET q == links[deliveries].stream
       IN /\ d' = <<deliveries, q[Len(q)]>>
          /\ links' = [links EXCEPT ![deliveries].stream = SubSeq(q, 1, Len(q) - 1)]
    /\ pcPump' = "ack"
    /\ UNCHANGED <<client, deliveries, err, supVars, nextLink, appVars,
                   sendCloses, output, ackOk, ackErr>>

\* case d, ok := <-deliveries with ok true: the oldest delivery of the stream.
TakeDelivery ==
    /\ Alive
    /\ pcPump = "select"
    /\ deliveries # Nil
    /\ links[deliveries].stream # <<>>
    /\ d' = <<deliveries, Head(links[deliveries].stream)>>
    /\ links' = [links EXCEPT ![deliveries].stream = Tail(@)]
    /\ pcPump' = "ack"
    /\ UNCHANGED <<client, deliveries, err, supVars, nextLink, appVars,
                   sendCloses, output, ackOk, ackErr>>

\* Mutant of DeliveriesClosed: the Link is dropped without being closed.
DeliveriesClosedNoClose ==
    /\ Alive
    /\ pcPump = "select"
    /\ deliveries # Nil
    /\ links[deliveries].sub = "closed"
    /\ links[deliveries].stream = <<>>
    /\ client' = Nil
    /\ pcPump' = LoopTop(Nil)
    /\ UNCHANGED <<deliveries, err, d, supVars, links, nextLink, appVars,
                   sendCloses, histVars>>

\* Mutant of DeliveriesClosed: the Link is closed but c.client is not reset.
DeliveriesClosedKeepsClient ==
    /\ Alive
    /\ pcPump = "select"
    /\ deliveries # Nil
    /\ links[deliveries].sub = "closed"
    /\ links[deliveries].stream = <<>>
    /\ links' = clientClose(links, client)
    /\ pcPump' = LoopTop(client)
    /\ UNCHANGED <<client, deliveries, err, d, supVars, nextLink, appVars,
                   sendCloses, histVars>>

\* case d, ok := <-deliveries with ok false: close the Link, drop it, continue.
DeliveriesClosed ==
    /\ Alive
    /\ pcPump = "select"
    /\ deliveries # Nil
    /\ links[deliveries].sub = "closed"
    /\ links[deliveries].stream = <<>>
    /\ links' = clientClose(links, client)
    /\ client' = Nil
    /\ pcPump' = LoopTop(Nil)
    /\ UNCHANGED <<deliveries, err, d, supVars, nextLink, appVars, sendCloses,
                   histVars>>

\* Mutant of AckDelivery: the error of d.Ack is ignored.
AckDeliveryIgnoringError ==
    /\ Alive
    /\ pcPump = "ack"
    /\ \E ok \in BOOLEAN :
         /\ IF ok
            THEN ackOk' = ackOk \cup {d} /\ UNCHANGED ackErr
            ELSE ackErr' = ackErr \cup {d} /\ UNCHANGED ackOk
         /\ pcPump' = "send"
    /\ UNCHANGED <<client, links, d, deliveries, err, supVars, nextLink, appVars,
                   sendCloses, output>>

\* Mutant of AckDelivery: after a failed Ack the Link is dropped without being
\* closed.
AckDeliveryNoClose ==
    /\ Alive
    /\ pcPump = "ack"
    /\ \E ok \in BOOLEAN :
         IF ok
         THEN /\ ackOk' = ackOk \cup {d}
              /\ pcPump' = "send"
              /\ UNCHANGED <<client, links, d, ackErr>>
         ELSE /\ ackErr' = ackErr \cup {d}
              /\ client' = Nil
              /\ d' = NoDelivery
              /\ pcPump' = LoopTop(Nil)
              /\ UNCHANGED <<links, ackOk>>
    /\ UNCHANGED <<deliveries, err, supVars, nextLink, appVars, sendCloses,
                   output>>

\* Mutant of AckDelivery: after a successful Ack the loop continues without
\* waiting for the application to take the delivery.
AckDeliveryWithoutSend ==
    /\ Alive
    /\ pcPump = "ack"
    /\ \E ok \in BOOLEAN :
         IF ok
         THEN /\ ackOk' = ackOk \cup {d}
              /\ pcPump' = LoopTop(client)
              /\ UNCHANGED <<client, links, d, ackErr>>
         ELSE /\ ackErr' = ackErr \cup {d}
              /\ links' = clientClose(links, client)
              /\ client' = Nil
              /\ d' = NoDelivery
              /\ pcPump' = LoopTop(Nil)
              /\ UNCHANGED ackOk
    /\ UNCHANGED <<deliveries, err, supVars, nextLink, appVars, sendCloses,
                   output>>

\* d.Ack(false): on an error close the Link, drop it and continue; on success
\* go on to the send.
AckDelivery ==
    /\ Alive
    /\ pcPump = "ack"
    /\ \E ok \in BOOLEAN :
         IF ok
         THEN /\ ackOk' = ackOk \cup {d}
              /\ pcPump' = "send"
              /\ UNCHANGED <<client, links, d, ackErr>>
         ELSE /\ ackErr' = ackErr \cup {d}
              /\ links' = clientClose(links, client)
              /\ client' = Nil
              /\ d' = NoDelivery
              /\ pcPump' = LoopTop(Nil)
              /\ UNCHANGED ackOk
    /\ UNCHANGED <<deliveries, err, supVars, nextLink, appVars, sendCloses,
                   output>>

\* c.sendChan <- d, paired with the application's receive.
Forward ==
    /\ Alive
    /\ pcPump = "send"
    /\ appReading
    /\ output' = Append(output, d)
    /\ d' = NoDelivery
    /\ pcPump' = LoopTop(client)
    /\ UNCHANGED <<client, deliveries, err, supVars, links, nextLink, appVars,
                   sendCloses, ackOk, ackErr>>

\* Mutant of Quit: the return after close(c.sendChan) is missing.
QuitWithoutReturn ==
    /\ Alive
    /\ pcPump = "select"
    /\ quitClosed
    /\ sendCloses' = sendCloses + 1
    /\ pcPump' = LoopTop(client)
    /\ UNCHANGED <<client, deliveries, err, d, supVars, links, nextLink, appVars,
                   histVars>>

\* case <-c.quit: close(c.sendChan) and return.
Quit ==
    /\ Alive
    /\ pcPump = "select"
    /\ quitClosed
    /\ sendCloses' = sendCloses + 1
    /\ pcPump' = "done"
    /\ UNCHANGED <<client, deliveries, err, d, supVars, links, nextLink, appVars,
                   histVars>>

\* ---------------------------------------------- redialConsumer goroutine
\* Mutant of SupReturn: the goroutine returns without the two deferred closes.
SupReturnNoDefers == "done"

\* A return of the goroutine runs its deferred calls, last deferred first.
SupReturn == "closeClientChan"

\* BuildStep with a goroutine that dials again after a failed call.
BuildStepRetrying(at, to, next) ==
    /\ Alive
    /\ pcSup = at
    /\ \E ok \in BOOLEAN :
         IF ok
         THEN /\ links' = [links EXCEPT ![supC].stage = to]
              /\ supErr' = FALSE
              /\ pcSup' = next
         ELSE /\ supErr' = TRUE
              /\ pcSup' = "dial"
              /\ UNCHANGED links
    /\ UNCHANGED <<supC, clientChanClosed, ccClosed, nextLink, pumpVars, appVars,
                   sendCloses, histVars>>

\* One broker call on the Link under construction: on success the Link
\* reaches stage `to` and the goroutine goes on to `next`; on an error the
\* goroutine logs and returns, leaving the Link as it is.
BuildStep(at, to, next) ==
    /\ Alive
    /\ pcSup = at
    /\ \E ok \in BOOLEAN :
         IF ok
         THEN /\ links' = [links EXCEPT ![supC].stage = to]
              /\ supErr' = FALSE
              /\ pcSup' = next
         ELSE /\ supErr' = TRUE
              /\ pcSup' = SupReturn
              /\ UNCHANGED links
    /\ UNCHANGED <<supC, clientChanClosed, ccClosed, nextLink, pumpVars, appVars,
                   sendCloses, histVars>>

\* First select, case <-ctx.Done(): log and return.
SupCancelledAtSlot ==
    /\ Alive
    /\ pcSup = "offerSlot"
    /\ ctxDone
    /\ pcSup' = SupReturn
    /\ UNCHANGED <<supC, supErr, clientChanClosed, ccClosed, links, nextLink, pumpVars,
                   appVars, sendCloses, histVars>>

\* Mutant of SupDial: the goroutine allocates its client once, before the loop,
\* and dials again on the client it has already handed over.
SupDialReusesClient ==
    /\ Alive
    /\ pcSup = "dial"
    /\ \E ok \in BOOLEAN :
         IF ok /\ nextLink < MaxLinks
         THEN /\ nextLink' = nextLink + 1
              /\ supC' = 1
              /\ links' = [links EXCEPT ![1] =
                              [@ EXCEPT !.stage = "connection", !.open = TRUE,
                                        !.owner = IF @ = "none" THEN "sup" ELSE @]]
              /\ supErr' = FALSE
              /\ pcSup' = "channel"
         ELSE /\ supErr' = TRUE
              /\ pcSup' = SupReturn
              /\ UNCHANGED <<nextLink, supC, links>>
    /\ UNCHANGED <<clientChanClosed, ccClosed, pumpVars, appVars, sendCloses,
                   histVars>>

\* c := &client{}; c.connection, err = amqp.DialConfig(...). The broker
\* accepts at most MaxLinks connections.
SupDial ==
    /\ Alive
    /\ pcSup = "dial"
    /\ \E ok \in BOOLEAN :
         IF ok /\ nextLink < MaxLinks
         THEN /\ nextLink' = nextLink + 1
              /\ supC' = nextLink + 1
              /\ links' = [links EXCEPT ![nextLink + 1] =
                              [NoLink EXCEPT !.stage = "connection", !.open = TRUE,
                                             !.owner = "sup"]]
              /\ supErr' = FALSE
              /\ pcSup' = "channel"
         ELSE /\ supErr' = TRUE
              /\ pcSup' = SupReturn
              /\ UNCHANGED <<nextLink, supC, links>>
    /\ UNCHANGED <<clientChanClosed, ccClosed, pumpVars, appVars, sendCloses,
                   histVars>>

\* c.channel, err = c.connection.Channel()
SupChannel == BuildStep("channel", "channel", "exchangeDeclare")

\* c.channel.ExchangeDeclare(...)
SupExchangeDeclare == BuildStep("exchangeDeclare", "exchange", "queueDeclare")

\* c.channel.QueueDeclare(...)
SupQueueDeclare == BuildStep("queueDeclare", "queue", "queueBind")

\* c.channel.QueueBind(...)
SupQueueBind == BuildStep("queueBind", "bound", "offerLink")

\* Second select, case <-ctx.Done(): log and return; the built Link is dropped.
SupCancelledAtLink ==
    /\ Alive
    /\ pcSup = "offerLink"
    /\ ctxDone
    /\ pcSup' = SupReturn
    /\ UNCHANGED <<supC, supErr, clientChanClosed, ccClosed, links, nextLink, pumpVars,
                   appVars, sendCloses, histVars>>

\* defer close(clientChan)
SupCloseClientChan ==
    /\ Alive
    /\ pcSup = "closeClientChan"
    /\ clientChanClosed' = TRUE
    /\ pcSup' = "closeClientChanChan"
    /\ UNCHANGED <<supC, supErr, ccClosed, links, nextLink, pumpVars, appVars, sendCloses,
                   histVars>>

\* defer close(clientChanChan)
SupCloseClientChanChan ==
    /\ Alive
    /\ pcSup = "closeClientChanChan"
    /\ ccClosed' = TRUE
    /\ pcSup' = "done"
    /\ UNCHANGED <<supC, supErr, clientChanClosed, links, nextLink, pumpVars, appVars,
                   sendCloses, histVars>>

\* ----------------------------------------------------------- the broker
\* Number of deliveries the broker has pushed on the Links 1..n.
RECURSIVE SentUpTo(_)
SentUpTo(n) == IF n = 0 THEN 0 ELSE links[n].sent + SentUpTo(n - 1)

\* The broker pushes the next delivery on the open subscription of Link l; it
\* pushes at most MaxDeliveries deliveries in all.
BrokerDeliver(l) ==
    /\ Alive
    /\ links[l].open
    /\ links[l].sub = "open"
    /\ SentUpTo(MaxLinks) < MaxDeliveries
    /\ links' = [links EXCEPT ![l].sent = @ + 1,
                              ![l].stream = Append(@, links[l].sent + 1)]
    /\ UNCHANGED <<nextLink, pumpVars, supVars, appVars, sendCloses, histVars>>

\* The subscription of Link l ends (channel or connection lost): the delivery
\* stream is closed, with the deliveries still buffered either kept or dropped.
BrokerCloseStream(l) ==
    /\ Alive
    /\ links[l].open
    /\ links[l].sub = "open"
    /\ \E keep \in BOOLEAN :
         links' = [links EXCEPT ![l].sub = "closed",
                                ![l].stream = IF keep THEN @ ELSE <<>>]
    /\ UNCHANGED <<nextLink, pumpVars, supVars, appVars, sendCloses, histVars>>

\* ------------------------------------------------------- specifications
Next ==
    \/ ShutdownCloseQuit
    \/ ShutdownCancel
    \/ AppStopReading
    \/ RecvSlot
    \/ RecvSlotClosed
    \/ RecvLink
    \/ RecvLinkClosed
    \/ StartConsume
    \/ TakeDelivery
    \/ DeliveriesClosed
    \/ AckDelivery
    \/ Forward
    \/ Quit
    \/ SupCancelledAtSlot
    \/ SupDial
    \/ SupChannel
    \/ SupExchangeDeclare
    \/ SupQueueDeclare
    \/ SupQueueBind
    \/ SupCancelledAtLink
    \/ SupCloseClientChan
    \/ SupCloseClientChanChan
    \/ \E l \in LinkIds : BrokerDeliver(l)
    \/ \E l \in LinkIds : BrokerCloseStream(l)

Spec == Init /\ [][Next]_vars

TypeOK ==
    /\ client \in LinkIds \cup {Nil}
    /\ deliveries \in LinkIds \cup {Nil}
    /\ supC \in LinkIds \cup {Nil}
    /\ supErr \in BOOLEAN
    /\ nextLink \in 0..MaxLinks
    /\ sendCloses \in 0..1
    /\ pcPump \in {"recvSlot", "recvLink", "consume", "select", "ack", "send",
                   "done", "panic"}
    /\ pcSup \in {"offerSlot", "dial", "channel", "exchangeDeclare", "queueDeclare",
                  "queueBind", "offerLink", "closeClientChan",
                  "closeClientChanChan", "done"}
    /\ pcApp \in {"run", "cancel", "down"}

\* The steps handle() takes on its own or together with the goroutine.
PumpNext ==
    \/ RecvSlot
    \/ RecvSlotClosed
    \/ RecvLink
    \/ RecvLinkClosed
    \/ StartConsume
    \/ TakeDelivery
    \/ DeliveriesClosed
    \/ AckDelivery
    \/ Quit

\* The steps the goroutine takes on its own.
SupNext ==
    \/ SupCancelledAtSlot
    \/ SupDial
    \/ SupChannel
    \/ SupExchangeDeclare
    \/ SupQueueDeclare
    \/ SupQueueBind
    \/ SupCancelledAtLink
    \/ SupCloseClientChan
    \/ SupCloseClientChanChan

\* Scheduling: a goroutine that can run does run, every broker call returns,
\* Shutdown runs to its end once called, a receiving application completes
\* the send, and a select case that is ready again and again is chosen at
\* some point (select picks among its ready cases at random).
FairSpec ==
    /\ Spec
    /\ WF_vars(PumpNext)
    /\ WF_vars(SupNext)
    /\ WF_vars(ShutdownCancel)
    /\ WF_vars(Forward)
    /\ SF_vars(Quit)
    /\ SF_vars(SupCancelledAtSlot)
    /\ SF_vars(SupCancelledAtLink)

\* ---------------------------------------------------------------- claims
Range(q) == {q[i] : i \in DOMAIN q}

\* Live Links that were handed to the pump.
PumpLinks == {l \in LinkIds : links[l].owner = "pump" /\ links[l].open}

\* Fully built live Links the goroutine has not handed off.
BuiltWaiting == {l \in LinkIds :
                   links[l].owner = "sup" /\ links[l].stage = "bound" /\ links[l].open}

\* The goroutine is between the first select and the second.
Building == pcSup \in {"dial", "channel", "exchangeDeclare", "queueDeclare", "queueBind"}

\* C1: the pump holds at most one live Link, and that one is c.client; the
\* supervisor holds at most one built Link not yet handed off, and is never
\* building a Link while a built one waits.
C1_AtMostOneLink ==
    /\ Cardinality(PumpLinks) <= 1
    /\ PumpLinks \subseteq {client}
    /\ Cardinality(BuiltWaiting) <= 1
    /\ Building => BuiltWaiting = {}

\* C1 witness: the pump has dropped its first Link and a second, fully built
\* one waits in the supervisor for the hand-off.
C1_Witness ==
    /\ pcSup = "offerLink"
    /\ BuiltWaiting = {2}
    /\ links[1].owner = "pump"
    /\ pcPump = "recvLink"

\* C2: every delivery the application receives was acknowledged with success
\* before the send, and no delivery whose Ack returned an error is sent.
C2_AckBeforeForward ==
    /\ [](\A i \in DOMAIN output : output[i] \in ackOk /\ output[i] \notin ackErr)
    /\ [][output' # output =>
            \E x \in ackOk \ ackErr : output' = Append(output, x)]_vars

\* C2 witness: one delivery was forwarded and the Ack of another one failed.
C2_Witness == output # <<>> /\ ackErr # {}

\* C3: after Shutdown has been invoked the pump eventually closes the output
\* channel.
C3_ShutdownClosesOutput == quitClosed ~> sendClosed

\* C4: once Shutdown has been invoked no delivery is sent on the output
\* channel any more.
C4_NoForwardAfterShutdown == [][quitClosed => output' = output]_vars

\* C5: the output channel is closed at most once, only after Shutdown has
\* been invoked, and nothing is sent on it after it has been closed.
C5_ClosedOnceOnShutdown ==
    /\ [](sendCloses <= 1 /\ (sendClosed => quitClosed))
    /\ [][sendClosed => output' = output]_vars

\* C5 witness: the output channel has been closed after a Link was lost, a
\* second Link consumed from and a delivery forwarded.
C5_Witness ==
    /\ sendCloses = 1
    /\ output # <<>>
    /\ client = 2
    /\ ~links[1].open

\* C7: the deliveries of one Link reach the application in the order the
\* stream carried them (ascending tags), each of them once.
C7_OrderWithinLink ==
    \A i, j \in DOMAIN output :
        i < j => /\ output[i] # output[j]
                 /\ output[i][1] = output[j][1] => output[i][2] < output[j][2]

\* C7 witness: two deliveries of one Link have been forwarded.
C7_Witness ==
    \E i, j \in DOMAIN output : i < j /\ output[i][1] = output[j][1]

\* The goroutine has returned (its deferred calls may still be running).
SupExited == pcSup \in {"closeClientChan", "closeClientChanChan", "done"}

\* C8: when the supervisor has exited without Shutdown having been invoked,
\* the pump halts and the output channel is eventually closed.
C8_SupervisorExitClosesOutput ==
    (pcSup = "done" /\ ~quitClosed) ~> (pcPump = "done" /\ sendClosed)

\* C9: every value the pump takes out of a hand-off slot is a fully built live
\* Link; the pump never starts a subscription on a nil Link.
C9_HandedLinkIsBuilt ==
    /\ pcPump = "consume" =>
          /\ client # Nil
          /\ links[client].stage = "bound"
          /\ links[client].open
    /\ pcPump # "panic"

\* C10: after Shutdown has been invoked the supervisor eventually terminates
\* and closes the hand-off point.
C10_SupervisorTerminates == quitClosed ~> (pcSup = "done" /\ ccClosed)

\* Apart from the process dying of the pump's panic, the supervisor does
\* terminate after Shutdown.
SupervisorTerminatesUnlessPanic ==
    quitClosed ~> ((pcSup = "done" /\ ccClosed) \/ ~Alive)

\* The output channel stays open after Shutdown even in runs without a panic:
\* this form of C3 excuses the runs that end in the panic, and fails too.
OutputClosedUnlessPanic == quitClosed ~> (sendClosed \/ ~Alive)

\* Link l was consumed from and then dropped by the pump (stream closed or Ack
\* failed), and no later connection has been dialed yet.
Discarded(l) ==
    /\ links[l].owner = "pump"
    /\ ~links[l].open
    /\ links[l].sub = "closed"
    /\ nextLink = l

\* The pump holds Link k with an open subscription and waits for its deliveries.
Consuming(k) ==
    /\ k \in LinkIds
    /\ client = k
    /\ pcPump = "select"
    /\ links[k].open
    /\ links[k].sub = "open"

\* The connect/declare/bind sequence that follows Link l has failed.
NextBuildFailed(l) ==
    /\ SupExited
    /\ \/ nextLink = l
       \/ nextLink = l + 1 /\ links[l + 1].stage # "bound"

\* Starting the subscription on Link k has failed.
SubscribeFailed(k) == k \in LinkIds /\ links[k].sub = "failed"

\* Whenever a delivery whose Ack succeeded has not been forwarded, later every
\* such delivery has been, unless the application has stopped receiving.
AckedIsForwarded ==
    (ackOk \ Range(output) # {}) ~> (ackOk \subseteq Range(output) \/ ~appReading)

\* C6 as stated: after the pump has dropped a Link, if the supervisor's next
\* connect/declare/bind sequence succeeds and no shutdown is requested, the
\* pump eventually holds the newly built Link with an open subscription, and
\* forwards the deliveries it acknowledges.
C6_ReconnectAsStated ==
    /\ \A l \in LinkIds :
          Discarded(l) ~> (Consuming(l + 1) \/ NextBuildFailed(l) \/ quitClosed)
    /\ AckedIsForwarded

\* C6 amended: the same, provided starting the subscription on the new Link
\* succeeds.
C6_Reconnect ==
    /\ \A l \in LinkIds :
          Discarded(l) ~> (\/ Consuming(l + 1)
                           \/ SubscribeFailed(l + 1)
                           \/ NextBuildFailed(l)
                           \/ quitClosed)
    /\ AckedIsForwarded

\* C6 witness: the first Link was dropped after its stream closed or an Ack
\* failed, and the pump consumes from the second and has forwarded from it.
C6_Witness ==
    /\ links[1].owner = "pump" /\ ~links[1].open /\ links[1].sub = "closed"
    /\ Consuming(2)
    /\ \E i \in DOMAIN output : output[i][1] = 2

\* The shutdown has fully propagated: Shutdown has returned, the goroutine has
\* exited and handle() has returned.
ShutdownPropagated == pcApp = "down" /\ pcSup = "done" /\ pcPump = "done"

\* C11: once the shutdown has fully propagated (supervisor exited and pump
\* halted) no Link is open: the Link the pump held when it took the shutdown
\* branch and a Link the supervisor built but never handed over are closed.
C11_NoLinkOpenAfterShutdown ==
    ShutdownPropagated => \A l \in LinkIds : ~links[l].open

\* The same for the Link the pump held alone: fails as well. (When the goroutine
\* drops a built Link at line 199, handle() is waiting on line 69 and never
\* returns: it receives nil and panics.)
PumpLinkClosedAfterShutdown ==
    ShutdownPropagated => \A l \in LinkIds : links[l].owner = "pump" => ~links[l].open

\* C12: when the dial, the channel open, the exchange declare, the queue
\* declare or the queue bind fails, the goroutine returns without retrying:
\* from then on it stays exited, dials nothing, and no Link changes hands, so
\* the partly built Link never reaches the pump.
C12_BuildFailureEndsRun ==
    [][/\ (supErr' /\ ~supErr) => pcSup' = SupReturn
       /\ supErr => /\ supErr'
                    /\ SupExited'
                    /\ nextLink' = nextLink
                    /\ \A l \in LinkIds : links'[l].owner = links[l].owner
                    /\ client' \in {client, Nil}]_vars

\* C12 witness: a declare or bind call failed on the second connection, the
\* goroutine has exited and the partly built Link is still its own.
C12_Witness ==
    /\ supErr
    /\ pcSup = "done"
    /\ supC = 2
    /\ links[2].stage \in {"connection", "channel", "exchange", "queue"}
    /\ links[2].owner = "sup"
    /\ links[1].owner = "pump"

\* C13: when Consume fails on a Link just received, the pump closes that Link,
\* holds no Link afterwards and goes back to asking for a new slot instead of
\* returning; nothing is ever taken or forwarded from that Link.
C13_SubscribeFailureRecovers ==
    /\ [][(pcPump = "consume" /\ client # Nil /\ links'[client].sub = "failed")
            => /\ ~links'[client].open
               /\ client' = Nil
               /\ pcPump' = "recvSlot"
               /\ output' = output]_vars
    /\ [](\A l \in LinkIds :
            links[l].sub = "failed"
              => /\ ~links[l].open
                 /\ client # l
                 /\ deliveries # l
                 /\ d[1] # l
                 /\ \A i \in DOMAIN output : output[i][1] # l)

\* C13 witness: Consume failed on the first Link, the pump asked for a new slot
\* and the goroutine has dialed the second connection.
C13_Witness ==
    /\ links[1].sub = "failed"
    /\ ~links[1].open
    /\ client = Nil
    /\ pcPump = "recvLink"
    /\ nextLink = 2

\* The pump is in the Consuming state: it holds a Link and is past Consume.
PumpConsuming == pcPump \in {"select", "ack", "send"}

\* Link l has been closed by client.close().
Closed(l) == links[l].stage # "none" /\ ~links[l].open

\* C14: when the pump leaves Consuming because the stream closed or an Ack
\* failed, the Link is closed by the time the pump asks for a new slot, and a
\* closed Link is never again subscribed, received from or acknowledged on.
C14_ClosedBeforeRequestNeverReused ==
    /\ [][(PumpConsuming /\ pcPump' = "recvSlot")
            => client # Nil /\ ~links'[client].open]_vars
    /\ [](pcPump \in {"recvSlot", "recvLink"}
            => \A l \in LinkIds : links[l].owner = "pump" => Closed(l))
    /\ [][\A l \in LinkIds :
            Closed(l) => /\ Closed(l)'
                         /\ links'[l].sub = links[l].sub
                         /\ d' = d \/ d'[1] # l
                         /\ \A x \in (ackOk' \cup ackErr') \ (ackOk \cup ackErr) :
                               x[1] # l]_vars

\* C14 witness: the first Link was closed after its stream closed, the pump
\* then asked for a slot and consumes from the second Link, whose delivery it
\* has acknowledged.
C14_Witness ==
    /\ Closed(1)
    /\ links[1].sub = "closed"
    /\ client = 2
    /\ \E x \in ackOk : x[1] = 2

\* C15: every subscription the pump starts is in manual-acknowledgment mode
\* (autoAck off), so that d.Ack is the only acknowledgment of a delivery.
C15_ManualAckMode ==
    \A l \in LinkIds : links[l].sub # "none" => ~links[l].autoAck

\* The Links whose broker connection is open.
OpenLinks == {l \in LinkIds : links[l].open}

\* The goroutine is between the accepted slot and the hand-off of the Link.
SupBuilding == Building \/ pcSup = "offerLink"

\* C16: at most one broker connection is open at any instant, whoever holds
\* it; the goroutine dials only after the pump has accepted a slot, the pump
\* accepts a slot only while it holds no Link, and so no Link is being built or
\* waits for its hand-off while the pump is Consuming.
C16_AtMostOneConnection ==
    /\ [](Cardinality(OpenLinks) <= 1)
    /\ [](SupBuilding => pcPump = "recvLink" /\ client = Nil)
    /\ []((PumpConsuming \/ (pcPump = "consume" /\ client # Nil))
            => /\ ~SupBuilding
               /\ \A l \in OpenLinks : links[l].owner = "pump")
    /\ [][nextLink' # nextLink
            => pcPump = "recvLink" /\ client = Nil /\ OpenLinks = {}]_vars
    /\ [][(pcPump = "recvSlot" /\ pcPump' = "recvLink")
            => client = Nil /\ OpenLinks = {}]_vars

\* C16 witness: the pump has closed the first Link and waits for the second,
\* whose connection the goroutine has opened and is still declaring on.
C16_Witness ==
    /\ Closed(1)
    /\ links[1].owner = "pump"
    /\ pcPump = "recvLink"
    /\ pcSup \in {"channel", "exchangeDeclare", "queueDeclare", "queueBind"}
    /\ OpenLinks = {2}

\* The deliveries whose Ack succeeded and that the application has not received.
Unforwarded == ackOk \ Range(output)

\* C17: the send to the application is a backpressure point: at most one
\* delivery is acknowledged and not yet forwarded, it is the one the pump is
\* sending, and while it waits the pump takes no further delivery from the
\* stream and records no further acknowledgment.
C17_Backpressure ==
    /\ [](Cardinality(Unforwarded) <= 1)
    /\ [](Unforwarded # {} => pcPump = "send" /\ Unforwarded = {d})
    /\ [][Unforwarded # {}
            => /\ ackOk' = ackOk
               /\ ackErr' = ackErr
               /\ d' \in {d, NoDelivery}
               /\ deliveries # Nil
               /\ Len(links'[deliveries].stream) >= Len(links[deliveries].stream)
                    \/ links'[deliveries].sub # links[deliveries].sub]_vars

\* C17 witness: the first delivery was forwarded, the second is acknowledged
\* and waits in the send for an application that has stopped receiving.
C17_Witness ==
    /\ Len(output) = 1
    /\ Cardinality(Unforwarded) = 1
    /\ pcPump = "send"
    /\ ~appReading

\* C18: a Link is worked on by one task at a time. The goroutine's calls
\* (dial, channel, declare, bind) change only a Link it has not handed over;
\* a Link that has been handed over stays the pump's and is never again the
\* goroutine's c; subscribing, taking deliveries, acknowledging and closing
\* happen only on a Link that has been handed over; and c.client changes only
\* in steps of handle().
C18_OneTaskPerLink ==
    /\ [](supC # Nil => links[supC].owner = "sup" /\ supC # client)
    /\ [](client # Nil => links[client].owner = "pump")
    /\ [][\A l \in LinkIds :
            /\ links'[l].stage # links[l].stage
                 => links[l].owner \in {"none", "sup"} /\ links'[l].owner = "sup"
            /\ links[l].owner = "pump"
                 => links'[l].owner = "pump" /\ supC' # l
            /\ links[l].owner = "sup"
                 => /\ links'[l].open = links[l].open
                    /\ links'[l].sub = links[l].sub
                    /\ links'[l].stream = links[l].stream
                    /\ d' = d \/ d'[1] # l
            /\ (links'[l].owner = "pump" /\ links[l].owner # "pump")
                 => supC = l /\ client' = l]_vars
    /\ [][client' # client => pcPump' # pcPump]_vars

\* C18 witness: the first Link was handed over, used and closed by the pump,
\* and the goroutine holds the second, fully built, for the hand-off.
C18_Witness ==
    /\ links[1].owner = "pump"
    /\ \E x \in ackOk : x[1] = 1
    /\ Closed(1)
    /\ supC = 2
    /\ pcSup = "offerLink"
    /\ links[2].owner = "sup"

\* handle() is blocked on the hand-off: in the receive from clientChanChan
\* (line 64) or in the receive from the slot it was given (line 69).
PumpWaitsSlot == pcPump = "recvSlot"
PumpWaitsLink == pcPump = "recvLink"

\* C19: the hand-off never deadlocks. Whenever the pump waits for a slot, the
\* goroutine eventually hands one over or closes clientChanChan; whenever it
\* waits for the Link, the goroutine eventually sends it or closes clientChan;
\* and in both cases the pump eventually leaves the receive, provided every
\* broker call returns.
C19_HandOffNeverDeadlocks ==
    /\ PumpWaitsSlot ~> (PumpWaitsLink \/ ccClosed)
    /\ PumpWaitsLink ~> ((pcPump = "consume" /\ client # Nil) \/ clientChanClosed)
    /\ (PumpWaitsSlot \/ PumpWaitsLink) ~> ~(PumpWaitsSlot \/ PumpWaitsLink)

\* C19 witness: the pump waits for the second Link while the goroutine, whose
\* broker call failed, has closed the slot and is about to exit.
C19_Witness ==
    /\ PumpWaitsLink
    /\ links[1].owner = "pump"
    /\ supErr
    /\ clientChanClosed
====
